---- MODULE Spec2Model ----
(***************************************************************************)
(* Model of the rice-disease agent core: Agent.stream and                  *)
(* Agent.get_agent_response (src/app/agent.py) driving the reasoning graph *)
(* over the process-wide MemorySaver, and the cached RAG graph of          *)
(* src/app/rag.py.  The graph built by build_agent_graph_with_helpfulness  *)
(* is not part of the sources; its REASON/ACT/format/judge steps follow    *)
(* sections 4.4-4.6 of the design document.                                *)
(***************************************************************************)
EXTENDS Naturals, Sequences, FiniteSets, TLC

\* ------------------------------------------------------------------ bounds
\* number of turns (calls of Agent.stream) submitted in one run of the model
MaxTurns == 2
\* configured maximum of REASON->ACT cycles per turn (design 4.4)
MaxCycles == 1
\* helpfulness retry ceiling (design 4.6)
Ceiling == 1
\* worker threads calling retrieve_information, and calls made by each
MaxThreads == 2
MaxRagCalls == 2

Procs == 1..MaxTurns
Threads == 1..MaxThreads
NoProc == 0

\* context ids a caller may pass to Agent.stream
Contexts == {"A", "B"}
NoContext == "none"

\* tool batches one model step may emit (names of tools.get_tool_belt)
ToolBatches == { <<"retrieve_information">>,
                 <<"tavily_search", "retrieve_information">> }

\* which calls of a batch fail when they are run: none, or the first
FailureSets == { {}, {1} }

\* ResponseFormat.status and the message texts the formatter may produce
\* (message: str, the empty string included)
Statuses == {"input_required", "completed", "error"}
Messages == {"diagnosis", "question", ""}

\* ------------------------------------------------------------- variables
VARIABLES
    store,      \* memory: thread_id -> checkpointed conversation state
    running,    \* the turn that holds the event loop (NoProc at a yield)
    pc,         \* position of each turn
    ctx,        \* context_id each turn was submitted with
    st,         \* state of each turn's graph run
    cycles,     \* REASON->ACT cycles each turn has made
    verdict,    \* last verdict of the helpfulness judge in each turn
    events,     \* what Agent.stream has yielded to each caller
    final,      \* the terminal result each caller received
    corpus,     \* what RAG_DATA_DIR holds
    ragCache,   \* the lru_cache of _get_rag_graph
    builds,     \* indexes built by _build_rag_graph so far
    tpc,        \* position of each thread inside retrieve_information
    tgraph,     \* the graph each thread got from _get_rag_graph
    tcalls,     \* retrieve_information calls each thread has made
    tres,       \* what each thread's last call returned
    tcontext,   \* state["context"]: the documents each thread retrieved
    tprompt     \* the formatted context each thread's generate step made

agentVars == <<store, running, pc, ctx, st, cycles, verdict, events, final>>
ragVars == <<corpus, ragCache, builds, tpc, tgraph, tcalls, tres, tcontext,
            tprompt>>
vars == <<store, running, pc, ctx, st, cycles, verdict, events, final,
          corpus, ragCache, builds, tpc, tgraph, tcalls, tres, tcontext,
          tprompt>>

\* ------------------------------------------------------- data of a turn
NoResponse == [kind |-> "None"]
\* a value in structured_response that is not a ResponseFormat instance
RawResponse == [kind |-> "dict"]

ResponseFormat(status, message, turn) ==
    [kind |-> "ResponseFormat", status |-> status, message |-> message,
     turn |-> turn]

EmptyState ==
    [messages |-> <<>>, structured_response |-> NoResponse,
     iteration_count |-> 0]

NoId == [turn |-> 0, cycle |-> 0, k |-> 0]

UserMessage(turn) ==
    [role |-> "user", turn |-> turn, calls |-> <<>>, id |-> NoId, ok |-> TRUE]

FeedbackMessage(turn) ==
    [role |-> "feedback", turn |-> turn, calls |-> <<>>, id |-> NoId,
     ok |-> TRUE]

AssistantMessage(turn, calls) ==
    [role |-> "assistant", turn |-> turn, calls |-> calls, id |-> NoId,
     ok |-> TRUE]

ToolMessage(turn, id, ok) ==
    [role |-> "tool", turn |-> turn, calls |-> <<>>, id |-> id, ok |-> ok]

\* the tool calls of one model step: one call per name, with fresh ids
ToolCalls(turn, cycle, batch) ==
    [k \in 1..Len(batch) |->
        [id |-> [turn |-> turn, cycle |-> cycle, k |-> k], name |-> batch[k]]]

\* results of one ACT step: one tool message per call, addressed to the
\* call's id, in the order the calls were emitted; a failing tool gives a
\* message describing the failure
ToolResultsReversed(turn, calls, failed) ==
    [k \in 1..Len(calls) |->
        ToolMessage(turn, calls[Len(calls) + 1 - k].id,
                    (Len(calls) + 1 - k) \notin failed)]

AnsweredOk(message) == message.ok

ToolResultsDropFailed(turn, calls, failed) ==
    SelectSeq([k \in 1..Len(calls) |->
                  ToolMessage(turn, calls[k].id, k \notin failed)],
              AnsweredOk)

ToolResults(turn, calls, failed) ==
    [k \in 1..Len(calls) |-> ToolMessage(turn, calls[k].id, k \notin failed)]

\* the REASON->ACT cycle cap of one turn
CycleCapNever(n) == FALSE

CycleCapReached(n) == n >= MaxCycles

\* the helpfulness retry ceiling
RetryCeilingReached(n) == n >= Ceiling

\* ------------------------------------------------------- Agent (agent.py)
\* config = {'configurable': {'thread_id': context_id}}
ThreadIdShared(context_id) == "A"

ThreadId(context_id) == context_id

SearchingEvent ==
    [is_task_complete |-> FALSE, require_user_input |-> FALSE,
     content |-> "Searching for information..."]

ProcessingEventMislabelled ==
    [is_task_complete |-> FALSE, require_user_input |-> FALSE,
     content |-> "Searching for information..."]

ProcessingEvent ==
    [is_task_complete |-> FALSE, require_user_input |-> FALSE,
     content |-> "Processing the results..."]

FallbackContent ==
    "We are unable to process your request at the moment. Please try again."

FallbackResult ==
    [is_task_complete |-> FALSE, require_user_input |-> TRUE,
     content |-> FallbackContent]

GetAgentResponseErrorDone(structured_response) ==
    IF structured_response.kind = "ResponseFormat"
    THEN [is_task_complete |-> structured_response.status # "input_required",
          require_user_input |-> structured_response.status = "input_required",
          content |-> structured_response.message]
    ELSE FallbackResult

GetAgentResponseNoFallback(structured_response) ==
    IF structured_response.kind = "ResponseFormat"
    THEN [is_task_complete |-> structured_response.status = "completed",
          require_user_input |-> structured_response.status # "completed",
          content |-> structured_response.message]
    ELSE [is_task_complete |-> FALSE, require_user_input |-> FALSE,
          content |-> ""]

GetAgentResponse(structured_response) ==
    IF structured_response.kind = "ResponseFormat"
    THEN IF structured_response.status = "input_required"
         THEN [is_task_complete |-> FALSE, require_user_input |-> TRUE,
               content |-> structured_response.message]
         ELSE IF structured_response.status = "error"
         THEN [is_task_complete |-> FALSE, require_user_input |-> TRUE,
               content |-> structured_response.message]
         ELSE IF structured_response.status = "completed"
         THEN [is_task_complete |-> TRUE, require_user_input |-> FALSE,
               content |-> structured_response.message]
         ELSE FallbackResult
    ELSE FallbackResult

\* graph.get_state(config).values
GetState(context_id) == store[ThreadId(context_id)]

\* the turn may take a step: it holds the event loop, or nobody does
MayRun(p) == running \in {NoProc, p}

InFlight(p) == pc[p] \notin {"idle", "done", "crashed"}

\* a superstep of the graph writes the run's state under its thread id
Checkpoint(p, state) ==
    /\ st' = [st EXCEPT ![p] = state]
    /\ store' = [store EXCEPT ![ThreadId(ctx[p])] = state]

\* the generator of stream is over: the state of its graph run is gone
DropRun(p) ==
    /\ st' = [st EXCEPT ![p] = EmptyState]
    /\ cycles' = [cycles EXCEPT ![p] = 0]
    /\ verdict' = [verdict EXCEPT ![p] = "none"]

\* context ids are opaque: the first turn uses "A", a later turn any id
FreshContexts ==
    IF \A q \in Procs : pc[q] = "idle" THEN {"A"} ELSE Contexts

\* Agent.stream(query, context_id): the graph loads the checkpoint of the
\* thread, adds the user message and starts a new turn
Submit(p, c) ==
    /\ pc[p] = "idle"
    /\ running = NoProc
    /\ \A q \in Procs : q < p => pc[q] # "idle"
    /\ c \in FreshContexts
    /\ LET loaded == store[ThreadId(c)]
           state == [loaded EXCEPT !.messages = Append(@, UserMessage(p)),
                                   !.iteration_count = 0]
       IN /\ st' = [st EXCEPT ![p] = state]
          /\ store' = [store EXCEPT ![ThreadId(c)] = state]
    /\ ctx' = [ctx EXCEPT ![p] = c]
    /\ pc' = [pc EXCEPT ![p] = "reason"]
    /\ running' = p
    /\ UNCHANGED <<cycles, verdict, events, final, ragVars>>

\* REASON: the model emits tool calls; stream yields the searching event
ReasonToolCalls(p, batch) ==
    /\ pc[p] = "reason"
    /\ MayRun(p)
    /\ ~CycleCapReached(cycles[p])
    /\ Checkpoint(p, [st[p] EXCEPT !.messages =
           Append(@, AssistantMessage(p, ToolCalls(p, cycles[p], batch)))])
    /\ events' = [events EXCEPT ![p] = Append(@, SearchingEvent)]
    /\ pc' = [pc EXCEPT ![p] = "act"]
    /\ running' = NoProc
    /\ UNCHANGED <<ctx, cycles, verdict, final, ragVars>>

\* REASON at the cycle cap: the tool calls are not run, the loop is DONE
\* with the text the model gave
ReasonForcedDone(p) ==
    /\ pc[p] = "reason"
    /\ MayRun(p)
    /\ CycleCapReached(cycles[p])
    /\ Checkpoint(p, [st[p] EXCEPT !.messages =
                         Append(@, AssistantMessage(p, <<>>))])
    /\ pc' = [pc EXCEPT ![p] = "format"]
    /\ running' = p
    /\ UNCHANGED <<ctx, cycles, verdict, events, final, ragVars>>

\* REASON: the model emits plain text, the loop is DONE
ReasonFinalText(p) ==
    /\ pc[p] = "reason"
    /\ MayRun(p)
    /\ ~CycleCapReached(cycles[p])
    /\ Checkpoint(p, [st[p] EXCEPT !.messages =
                         Append(@, AssistantMessage(p, <<>>))])
    /\ pc' = [pc EXCEPT ![p] = "format"]
    /\ running' = p
    /\ UNCHANGED <<ctx, cycles, verdict, events, final, ragVars>>

\* ACT: every pending call is run and answered; stream yields the
\* processing event for the state whose last message is a tool message
Act(p, failed) ==
    /\ pc[p] = "act"
    /\ MayRun(p)
    /\ LET calls == st[p].messages[Len(st[p].messages)].calls
       IN Checkpoint(p, [st[p] EXCEPT !.messages =
                            @ \o ToolResults(p, calls, failed)])
    /\ events' = [events EXCEPT ![p] = Append(@, ProcessingEvent)]
    /\ cycles' = [cycles EXCEPT ![p] = @ + 1]
    /\ pc' = [pc EXCEPT ![p] = "reason"]
    /\ running' = NoProc
    /\ UNCHANGED <<ctx, verdict, final, ragVars>>

\* the formatter turns the final text into a ResponseFormat
FormatParsed(p, status, message) ==
    /\ pc[p] = "format"
    /\ MayRun(p)
    /\ Checkpoint(p, [st[p] EXCEPT !.structured_response =
                         ResponseFormat(status, message, p)])
    /\ pc' = [pc EXCEPT ![p] = "judge"]
    /\ running' = p
    /\ UNCHANGED <<ctx, cycles, verdict, events, final, ragVars>>

\* the model's output does not parse: structured_response keeps what it
\* held, or holds a value that is no ResponseFormat
FormatUnparsed(p, raw) ==
    /\ pc[p] = "format"
    /\ MayRun(p)
    /\ Checkpoint(p, [st[p] EXCEPT !.structured_response =
                         IF raw THEN RawResponse ELSE @])
    /\ pc' = [pc EXCEPT ![p] = "judge"]
    /\ running' = p
    /\ UNCHANGED <<ctx, cycles, verdict, events, final, ragVars>>

\* the helpfulness judge accepts the candidate
JudgeAccept(p) ==
    /\ pc[p] = "judge"
    /\ MayRun(p)
    /\ verdict' = [verdict EXCEPT ![p] = "accept"]
    /\ pc' = [pc EXCEPT ![p] = "final"]
    /\ running' = p
    /\ UNCHANGED <<store, ctx, st, cycles, events, final, ragVars>>

\* the judge rejects below the ceiling: feedback goes back to REASON
JudgeReject(p) ==
    /\ pc[p] = "judge"
    /\ MayRun(p)
    /\ ~RetryCeilingReached(st[p].iteration_count)
    /\ Checkpoint(p, [st[p] EXCEPT
                         !.messages = Append(@, FeedbackMessage(p)),
                         !.iteration_count = @ + 1])
    /\ verdict' = [verdict EXCEPT ![p] = "reject"]
    /\ pc' = [pc EXCEPT ![p] = "reason"]
    /\ running' = p
    /\ UNCHANGED <<ctx, cycles, events, final, ragVars>>

\* the judge rejects at the ceiling: the last candidate is accepted
JudgeForcedAccept(p) ==
    /\ pc[p] = "judge"
    /\ MayRun(p)
    /\ RetryCeilingReached(st[p].iteration_count)
    /\ verdict' = [verdict EXCEPT ![p] = "reject"]
    /\ pc' = [pc EXCEPT ![p] = "final"]
    /\ running' = p
    /\ UNCHANGED <<store, ctx, st, cycles, events, final, ragVars>>

\* a call of the model raises; nothing in Agent.stream catches it
ModelCallFails(p) ==
    /\ pc[p] \in {"reason", "format", "judge"}
    /\ MayRun(p)
    /\ pc' = [pc EXCEPT ![p] = "crashed"]
    /\ running' = NoProc
    /\ DropRun(p)
    /\ UNCHANGED <<store, ctx, events, final, ragVars>>

\* the graph run is over: stream yields get_agent_response(config)
Final(p) ==
    /\ pc[p] = "final"
    /\ MayRun(p)
    /\ LET result == GetAgentResponse(GetState(ctx[p]).structured_response)
       IN /\ final' = [final EXCEPT ![p] = result]
          /\ events' = [events EXCEPT ![p] = Append(@, result)]
    /\ pc' = [pc EXCEPT ![p] = "done"]
    /\ running' = NoProc
    /\ DropRun(p)
    /\ UNCHANGED <<store, ctx, ragVars>>

\* --------------------------------------------------------- RAG (rag.py)
Corpora == {"missing", "empty", "unreadable", "ok"}

\* DirectoryLoader(data_dir, glob="**/*.pdf").load(): raises for a missing
\* directory and for a file it cannot read, else gives the pages it read,
\* each with the path of its file (a path is the sequence of its components)
\* and its page number, counted from 0 by PyMuPDFLoader
DirectoryLoaderLoad(c) ==
    [raised |-> c \in {"missing", "unreadable"},
     documents |-> IF c = "ok"
                   THEN { [source |-> <<"data", "blast.pdf">>, page |-> n] :
                              n \in {0, 1} }
                   ELSE {}]

\* the try/except around the load: any failure leaves documents = []
LoadDocuments(c) ==
    IF DirectoryLoaderLoad(c).raised THEN {}
    ELSE DirectoryLoaderLoad(c).documents

\* chunks = text_splitter.split_documents(documents) if documents else []
SplitDocuments(documents) ==
    IF documents = {} THEN {}
    ELSE { [source |-> d.source, page |-> d.page, part |-> n] :
               d \in documents, n \in {1, 2} }

\* Qdrant.from_documents(chunks, embedding): the vector size is read off
\* the embedding of the first chunk, so an empty list raises; so does a
\* failing embedding request
FromDocumentsRaises(chunks, apiOk) == chunks = {} \/ ~apiOk

\* _build_rag_graph(data_dir) raises iff building the vector store does
BuildRagGraphRaises(c, apiOk) ==
    FromDocumentsRaises(SplitDocuments(LoadDocuments(c)), apiOk)

\* ---------------------------------------------- generate (rag.py:102-119)
Some(value) == [some |-> TRUE, value |-> value]
\* meta.get("source", "") without the key; meta.get("page") without the key
NoSource == [some |-> FALSE, value |-> <<>>]
NoPage == [some |-> FALSE, value |-> 0]

\* os.path.basename: the last component of a path, "" for the empty path
Basename(path) == IF path = <<>> THEN "" ELSE path[Len(path)]

\* str(page) of the f-string
PageStr(page) ==
    CASE page = 0 -> "0" [] page = 1 -> "1" [] page = 2 -> "2"
      [] page = 3 -> "3" [] OTHER -> "n"

\* src = os.path.basename(meta.get("source", "")) or "unknown.pdf"
SourceName(meta) ==
    LET base == Basename(IF meta.source.some THEN meta.source.value ELSE <<>>)
    IN IF base = "" THEN "unknown.pdf" ELSE base

\* page is not None
HasPageTruthy(page) == page.some /\ page.value # 0

HasPage(page) == page.some

\* header = f"[{src}, p. {page}]" if page is not None else f"[{src}]"
Header(meta) ==
    IF HasPage(meta.page)
    THEN <<"[", SourceName(meta), ", p. ", PageStr(meta.page.value), "]">>
    ELSE <<"[", SourceName(meta), "]">>

\* formatted_context_parts: f"{header}\n{d.page_content}" for every document
FormatContext(docs) ==
    [i \in 1..Len(docs) |->
        [header |-> Header(docs[i].metadata),
         page_content |-> docs[i].page_content]]

\* a chunk of the index as the Document the retriever returns
ChunkDocument(chunk) ==
    [metadata |-> [source |-> Some(chunk.source), page |-> Some(chunk.page)],
     page_content |-> chunk.part]

\* retriever.invoke(question): the chunks of the index in rank order
Retrievals(chunks) ==
    { docs \in [1..Cardinality(chunks) -> {ChunkDocument(c) : c \in chunks}] :
        \A c \in chunks : \E i \in 1..Cardinality(chunks) :
            docs[i] = ChunkDocument(c) }

\* retrieve(state), the first node of graph.invoke({"question": query}): the
\* retriever embeds the question and gives the documents, or raises, and
\* then graph.invoke raises with no context and generate not run
Retrieve(t) ==
    /\ tpc[t] = "invoke"
    /\ \E embedOk \in BOOLEAN :
          IF embedOk
          THEN /\ \E docs \in Retrievals(SplitDocuments(LoadDocuments(corpus))) :
                     tcontext' = [tcontext EXCEPT ![t] = docs]
               /\ tpc' = [tpc EXCEPT ![t] = "generate"]
               /\ UNCHANGED tres
          ELSE /\ UNCHANGED tcontext
               /\ tres' = [tres EXCEPT ![t] = "invoke_raised"]
               /\ tpc' = [tpc EXCEPT ![t] = "raised"]
    /\ UNCHANGED <<corpus, ragCache, builds, tgraph, tcalls, tprompt, agentVars>>

\* generate(state), the second node: the context is formatted for the
\* prompt, then the chain calls the model, which answers or raises
Generate(t) ==
    /\ tpc[t] = "generate"
    /\ tprompt' = [tprompt EXCEPT ![t] = FormatContext(tcontext[t])]
    /\ \E llmOk \in BOOLEAN :
          /\ tres' = [tres EXCEPT ![t] =
                         IF llmOk THEN "response" ELSE "invoke_raised"]
          /\ tpc' = [tpc EXCEPT ![t] = IF llmOk THEN "returned" ELSE "raised"]
    /\ UNCHANGED <<corpus, ragCache, builds, tgraph, tcalls, tcontext,
                   agentVars>>

\* retrieve_information: a thread enters the tool
RagCall(t) ==
    /\ tpc[t] \in {"idle", "returned", "raised"}
    /\ tcalls[t] < MaxRagCalls
    /\ tcalls' = [tcalls EXCEPT ![t] = @ + 1]
    /\ tpc' = [tpc EXCEPT ![t] = "lookup"]
    /\ tcontext' = [tcontext EXCEPT ![t] = <<>>]
    /\ tprompt' = [tprompt EXCEPT ![t] = <<>>]
    /\ UNCHANGED <<corpus, ragCache, builds, tgraph, tres, agentVars>>

\* _get_rag_graph, lru_cache(maxsize=1): the cache holds a graph
RagCacheHit(t) ==
    /\ tpc[t] = "lookup"
    /\ ragCache # 0
    /\ tgraph' = [tgraph EXCEPT ![t] = ragCache]
    /\ tpc' = [tpc EXCEPT ![t] = "invoke"]
    /\ UNCHANGED <<corpus, ragCache, builds, tcalls, tres, tcontext, tprompt, agentVars>>

\* lru_cache: the cache is empty, the wrapped function is called
RagCacheMiss(t) ==
    /\ tpc[t] = "lookup"
    /\ ragCache = 0
    /\ tpc' = [tpc EXCEPT ![t] = "build"]
    /\ UNCHANGED <<corpus, ragCache, builds, tgraph, tcalls, tres, tcontext,
                   tprompt, agentVars>>

\* _build_rag_graph runs and returns a new compiled graph
RagBuild(t) ==
    /\ tpc[t] = "build"
    /\ ~BuildRagGraphRaises(corpus, TRUE)
    /\ builds' = builds + 1
    /\ tgraph' = [tgraph EXCEPT ![t] = builds + 1]
    /\ tpc' = [tpc EXCEPT ![t] = "store"]
    /\ UNCHANGED <<corpus, ragCache, tcalls, tres, tcontext, tprompt, agentVars>>

\* _build_rag_graph raises: nothing is cached, the tool call raises
RagBuildRaises(t) ==
    /\ tpc[t] = "build"
    /\ \E apiOk \in BOOLEAN : BuildRagGraphRaises(corpus, apiOk)
    /\ tres' = [tres EXCEPT ![t] = "build_raised"]
    /\ tpc' = [tpc EXCEPT ![t] = "raised"]
    /\ UNCHANGED <<corpus, ragCache, builds, tgraph, tcalls, tcontext, tprompt, agentVars>>

\* lru_cache stores the result unless another call stored one meanwhile;
\* the caller gets the graph it built either way
RagStore(t) ==
    /\ tpc[t] = "store"
    /\ ragCache' = IF ragCache = 0 THEN tgraph[t] ELSE ragCache
    /\ tpc' = [tpc EXCEPT ![t] = "invoke"]
    /\ UNCHANGED <<corpus, builds, tgraph, tcalls, tres, tcontext, tprompt, agentVars>>

InitRag ==
    /\ corpus \in Corpora
    /\ ragCache = 0
    /\ builds = 0
    /\ tpc = [t \in Threads |-> "idle"]
    /\ tgraph = [t \in Threads |-> 0]
    /\ tcalls = [t \in Threads |-> 0]
    /\ tres = [t \in Threads |-> "none"]
    /\ tcontext = [t \in Threads |-> <<>>]
    /\ tprompt = [t \in Threads |-> <<>>]

NextRag ==
    \E t \in Threads :
        \/ RagCall(t)
        \/ RagCacheHit(t)
        \/ RagCacheMiss(t)
        \/ RagBuild(t)
        \/ RagBuildRaises(t)
        \/ RagStore(t)
        \/ Retrieve(t)
        \/ Generate(t)

NoResult ==
    [is_task_complete |-> FALSE, require_user_input |-> FALSE,
     content |-> "none"]

InitAgent ==
    /\ store = [c \in Contexts |-> EmptyState]
    /\ running = NoProc
    /\ pc = [p \in Procs |-> "idle"]
    /\ ctx = [p \in Procs |-> NoContext]
    /\ st = [p \in Procs |-> EmptyState]
    /\ cycles = [p \in Procs |-> 0]
    /\ verdict = [p \in Procs |-> "none"]
    /\ events = [p \in Procs |-> <<>>]
    /\ final = [p \in Procs |-> NoResult]

InitRagIdle ==
    /\ corpus = "ok"
    /\ ragCache = 0
    /\ builds = 0
    /\ tpc = [t \in Threads |-> "idle"]
    /\ tgraph = [t \in Threads |-> 0]
    /\ tcalls = [t \in Threads |-> 0]
    /\ tres = [t \in Threads |-> "none"]
    /\ tcontext = [t \in Threads |-> <<>>]
    /\ tprompt = [t \in Threads |-> <<>>]

Init == InitAgent /\ InitRagIdle

\* what the model, the tools and the judge do in the conversation runs:
\* several turns, each with one batch of two calls whose tools answer and
\* a judge that accepts the candidate
ConvBatches == { <<"tavily_search", "retrieve_information">> }
ConvFailures == { {} }
ConvMessages == {"diagnosis"}

Next ==
    \E p \in Procs :
        \/ \E c \in Contexts : Submit(p, c)
        \/ \E batch \in ConvBatches : ReasonToolCalls(p, batch)
        \/ ReasonForcedDone(p)
        \/ ReasonFinalText(p)
        \/ \E failed \in ConvFailures : Act(p, failed)
        \/ \E s \in Statuses, m \in ConvMessages : FormatParsed(p, s, m)
        \/ \E raw \in BOOLEAN : FormatUnparsed(p, raw)
        \/ JudgeAccept(p)
        \/ ModelCallFails(p)
        \/ Final(p)

Spec == Init /\ [][Next]_vars

\* one turn, with every batch, tool failure and formatter output
NextTurn ==
    \E p \in {1} :
        \/ \E c \in Contexts : Submit(p, c)
        \/ \E batch \in ToolBatches : ReasonToolCalls(p, batch)
        \/ ReasonForcedDone(p)
        \/ ReasonFinalText(p)
        \/ \E failed \in FailureSets : Act(p, failed)
        \/ \E s \in Statuses, m \in Messages : FormatParsed(p, s, m)
        \/ \E raw \in BOOLEAN : FormatUnparsed(p, raw)
        \/ JudgeAccept(p)
        \/ JudgeReject(p)
        \/ JudgeForcedAccept(p)
        \/ ModelCallFails(p)
        \/ Final(p)

SpecTurn == Init /\ [][NextTurn]_vars

\* threads of one process calling retrieve_information
InitRagSpec ==
    /\ store = [c \in Contexts |-> EmptyState]
    /\ running = NoProc
    /\ pc = [p \in Procs |-> "idle"]
    /\ ctx = [p \in Procs |-> NoContext]
    /\ st = [p \in Procs |-> EmptyState]
    /\ cycles = [p \in Procs |-> 0]
    /\ verdict = [p \in Procs |-> "none"]
    /\ events = [p \in Procs |-> <<>>]
    /\ final = [p \in Procs |-> NoResult]
    /\ InitRag

SpecRag == InitRagSpec /\ [][NextRag]_vars

\* one thread calling retrieve_information, call after call
NextRagCall ==
    \E t \in {1} :
        \/ RagCall(t)
        \/ RagCacheHit(t)
        \/ RagCacheMiss(t)
        \/ RagBuild(t)
        \/ RagBuildRaises(t)
        \/ RagStore(t)
        \/ Retrieve(t)
        \/ Generate(t)

SpecRagCall == InitRagSpec /\ [][NextRagCall]_vars

\* ================================================================ claims
Last(seq) == seq[Len(seq)]

\* the step of turn p in which stream yields its terminal result
FinalStep(p) == pc[p] = "final" /\ pc'[p] = "done"

\* C1: the terminal result stream yields carries the message of the
\* ResponseFormat stored for the conversation, with is_task_complete and
\* require_user_input set by its status: completed gives (true, false),
\* input_required gives (false, true), error gives (false, true).
C1_ResultFollowsStatus ==
    [][\A p \in Procs :
          LET sr == store[ctx[p]].structured_response
          IN (FinalStep(p) /\ sr.kind = "ResponseFormat") =>
                /\ final'[p].content = sr.message
                /\ sr.status = "completed" =>
                      final'[p].is_task_complete
                      /\ ~final'[p].require_user_input
                /\ sr.status = "input_required" =>
                      ~final'[p].is_task_complete
                      /\ final'[p].require_user_input
                /\ sr.status = "error" =>
                      ~final'[p].is_task_complete
                      /\ final'[p].require_user_input
                /\ Last(events'[p]) = final'[p]]_vars

\* a turn has ended on a stored response of status error and its caller
\* holds the message with require_user_input set
C1_Witness ==
    \E p \in Procs :
        /\ pc[p] = "done"
        /\ store[ctx[p]].structured_response.kind = "ResponseFormat"
        /\ store[ctx[p]].structured_response.status = "error"
        /\ final[p].content = store[ctx[p]].structured_response.message
        /\ final[p].require_user_input

\* C2: every turn that has been submitted and has ended delivered a
\* terminal result to its caller; no failure of a model call leaves
\* stream by an exception.
C2_StreamNeverRaises ==
    \A p \in Procs :
        (pc[p] # "idle" /\ ~InFlight(p)) =>
            (pc[p] = "done" /\ final[p] # NoResult)

\* C3: when the conversation state holds no structured_response, or a
\* value that is no ResponseFormat, the terminal result is the synthetic
\* one: is_task_complete false, require_user_input true, and the
\* non-empty "unable to process, please try again" text.
C3_FallbackOnUnparsed ==
    [][\A p \in Procs :
          LET sr == store[ctx[p]].structured_response
          IN (FinalStep(p) /\ sr.kind # "ResponseFormat") =>
                /\ ~final'[p].is_task_complete
                /\ final'[p].require_user_input
                /\ final'[p].content # ""
                /\ final'[p].content = FallbackContent
                /\ Last(events'[p]) = final'[p]]_vars

\* one turn ended on a state without structured_response and another on a
\* state holding a value that is no ResponseFormat; both got the fallback
C3_Witness ==
    \E p, q \in Procs :
        /\ pc[p] = "done" /\ pc[q] = "done"
        /\ store[ctx[p]].structured_response = NoResponse
        /\ store[ctx[q]].structured_response = RawResponse
        /\ final[p] = FallbackResult
        /\ final[q] = FallbackResult

\* the model steps (assistant messages) turn p has put into a history
ModelSteps(p, messages) ==
    { i \in 1..Len(messages) :
        messages[i].role = "assistant" /\ messages[i].turn = p }

\* C4: a turn never makes more than MaxCycles REASON->ACT cycles; a REASON
\* step taken at the cap never goes to ACT but ends the loop with an
\* assistant text that carries no tool call; and the model steps of one
\* turn are bounded, so no behaviour of the model or the tools keeps the
\* loop running.
C4_CyclesBounded ==
    [][\A p \in Procs :
          /\ cycles'[p] <= MaxCycles
          /\ (pc[p] = "reason" /\ cycles[p] = MaxCycles /\ pc'[p] # "reason")
                => pc'[p] \in {"format", "crashed"}
          /\ (pc[p] = "reason" /\ pc'[p] = "format") =>
                /\ Last(st'[p].messages).role = "assistant"
                /\ Last(st'[p].messages).calls = <<>>
                /\ store'[ctx[p]] = st'[p]
          /\ Cardinality(ModelSteps(p, st'[p].messages))
                <= MaxCycles + Ceiling + 1]_vars

\* a turn that used up its cycles was sent on to the formatter
C4_Witness ==
    \E p \in Procs :
        /\ pc[p] = "format"
        /\ cycles[p] = MaxCycles
        /\ \E i \in ModelSteps(p, st[p].messages) :
              st[p].messages[i].calls # <<>>

\* the feedback messages the judge has put into a history for turn p
Feedbacks(p, messages) ==
    { i \in 1..Len(messages) :
        messages[i].role = "feedback" /\ messages[i].turn = p }

\* C5: iteration_count never exceeds the ceiling and counts the feedback
\* messages of the turn; a reject below the ceiling appends one feedback
\* message and adds one to iteration_count; a verdict at the ceiling ends
\* the turn whatever it is; so a turn whose judge rejected every candidate
\* ends after exactly Ceiling reject cycles with iteration_count = Ceiling
\* and a non-empty result.
C5_RejectsReachCeiling ==
    [][\A p \in Procs :
          /\ st'[p].iteration_count <= Ceiling
          /\ Cardinality(Feedbacks(p, st'[p].messages))
                = st'[p].iteration_count
          /\ (pc[p] = "judge" /\ pc'[p] = "reason") =>
                /\ st'[p].iteration_count = st[p].iteration_count + 1
                /\ st'[p].messages =
                      Append(st[p].messages, FeedbackMessage(p))
          /\ (pc[p] = "judge" /\ st[p].iteration_count = Ceiling
                  /\ pc'[p] # "judge") => pc'[p] \in {"final", "crashed"}
          /\ (pc'[p] = "final" /\ verdict'[p] = "reject") =>
                st'[p].iteration_count = Ceiling
          /\ (FinalStep(p) /\ verdict[p] = "reject") =>
                final'[p].content # ""]_vars

\* the tool messages of a history that answer call id
Answers(messages, id) ==
    { j \in 1..Len(messages) :
        messages[j].role = "tool" /\ messages[j].id = id }

\* the calls of a history, as <<message index, call index>>, that carry id
Origins(messages, id) ==
    UNION { { <<i, k>> : k \in { n \in 1..Len(messages[i].calls) :
                                    messages[i].calls[n].id = id } } :
            i \in { n \in 1..Len(messages) :
                        messages[n].role = "assistant" } }

\* C6: in the history a REASON step of a turn observes, every model step
\* of the turn that emitted N tool calls is followed by exactly N tool
\* messages, the k-th addressed to the id of the k-th call; each call is
\* answered once; and every tool message has exactly one originating call,
\* earlier in the history and of the same turn.
C6_ToolResultsPaired ==
    \A p \in Procs :
        LET messages == st[p].messages
        IN /\ \A i \in ModelSteps(p, messages) :
                LET calls == messages[i].calls
                IN (calls # <<>> /\ ~(pc[p] = "act" /\ i = Len(messages))) =>
                      /\ i + Len(calls) <= Len(messages)
                      /\ \A k \in 1..Len(calls) :
                            /\ messages[i + k].role = "tool"
                            /\ messages[i + k].id = calls[k].id
                            /\ Answers(messages, calls[k].id) = {i + k}
                      /\ (i + Len(calls) + 1 <= Len(messages)) =>
                            messages[i + Len(calls) + 1].role # "tool"
           /\ \A j \in 1..Len(messages) :
                messages[j].role = "tool" =>
                    /\ Cardinality(Origins(messages, messages[j].id)) = 1
                    /\ \A ik \in Origins(messages, messages[j].id) :
                          /\ ik[1] < j
                          /\ messages[ik[1]].turn = messages[j].turn

\* a REASON step is about to observe the two results of a two-call step,
\* the first of them the report of a failed tool
C6_Witness ==
    \E p \in Procs :
        /\ pc[p] = "reason"
        /\ Len(st[p].messages) >= 3
        /\ Last(st[p].messages).role = "tool"
        /\ st[p].messages[Len(st[p].messages) - 1].role = "tool"
        /\ Len(st[p].messages[Len(st[p].messages) - 2].calls) = 2
        /\ ~st[p].messages[Len(st[p].messages) - 1].ok

\* the turns whose writes a conversation state holds
Writers(state) ==
    { state.messages[i].turn : i \in 1..Len(state.messages) }
        \cup (IF state.structured_response.kind = "ResponseFormat"
              THEN {state.structured_response.turn} ELSE {})

\* C7: the state kept for a context id holds only what turns submitted
\* with that id wrote, a run sees only such state, a step of a turn
\* leaves the state of every other context id as it was, and the state of
\* an id no turn has used is empty.
C7_CheckpointIsolation ==
    [][/\ \A c \in Contexts :
             /\ \A w \in Writers(store'[c]) : ctx'[w] = c
             /\ store'[c] # store[c] =>
                   \E p \in Procs : pc'[p] # pc[p] /\ ctx'[p] = c
             /\ (\A p \in Procs : ctx'[p] # c) => store'[c] = EmptyState
       /\ \A p \in Procs :
             \A w \in Writers(st'[p]) : ctx'[w] = ctx'[p]]_vars

\* both context ids hold a conversation with a structured response
C7_Witness ==
    /\ \A c \in Contexts :
          /\ store[c].messages # <<>>
          /\ store[c].structured_response.kind = "ResponseFormat"
    /\ \E p, q \in Procs : ctx[p] = "A" /\ ctx[q] = "B"

\* C8: two turns on one context id are never in flight together: the
\* second starts only when the first has ended.
C8_NoInterleavedTurns ==
    \A p, q \in Procs :
        (p # q /\ InFlight(p) /\ InFlight(q)) => ctx[p] # ctx[q]

\* C9: whatever the calls of retrieve_information and their interleaving,
\* _build_rag_graph builds at most one index, which every caller uses.
C9_BuiltAtMostOnce ==
    /\ builds <= 1
    /\ \A t \in Threads : tpc[t] = "invoke" => tgraph[t] = ragCache

BadCorpora == {"missing", "empty", "unreadable"}

\* C10: with a corpus location that is missing, empty or unreadable,
\* _build_rag_graph does not raise.
C10_BuildNeverRaises ==
    corpus \in BadCorpora =>
        \A t \in Threads : ~(tpc[t] = "raised" /\ tres[t] = "build_raised")

\* C11: an ACT step never ends the turn: whatever tools fail, the step
\* goes on to REASON after it has appended and checkpointed one tool
\* message for every pending call, addressed to that call, a failed call
\* being answered by a message that reports the failure.
C11_ToolFailureSurfaced ==
    [][\A p \in Procs :
          (pc[p] = "act" /\ pc'[p] # "act") =>
              LET calls == Last(st[p].messages).calls
                  n == Len(st[p].messages)
              IN /\ pc'[p] = "reason"
                 /\ Len(st'[p].messages) = n + Len(calls)
                 /\ \A k \in 1..Len(calls) :
                       /\ st'[p].messages[n + k].role = "tool"
                       /\ st'[p].messages[n + k].id = calls[k].id
                 /\ \A i \in 1..n : st'[p].messages[i] = st[p].messages[i]
                 /\ store'[ctx[p]] = st'[p]]_vars

\* the REASON step is about to observe the report of a failed
\* retrieve_information call
C11_Witness ==
    \E p \in Procs :
        /\ pc[p] = "reason"
        /\ Len(st[p].messages) >= 2
        /\ Last(st[p].messages).role = "tool"
        /\ ~Last(st[p].messages).ok
        /\ st[p].messages[Len(st[p].messages) - 1].calls # <<>>
        /\ st[p].messages[Len(st[p].messages) - 1].calls[1].name
              = "retrieve_information"
        /\ store[ctx[p]] = st[p]

\* a progress event: neither flag is set
IsProgress(event) ==
    ~event.is_task_complete /\ ~event.require_user_input

\* C12: the events of a turn are progress events followed by exactly one
\* terminal result: every event before the last is a progress event,
\* a turn still running has yielded progress events only, and a turn that
\* has ended has yielded its terminal result as the last event.
C12_ProgressThenTerminal ==
    \A p \in Procs :
        /\ \A i \in 1..Len(events[p]) :
              i < Len(events[p]) => IsProgress(events[p][i])
        /\ InFlight(p) =>
              \A i \in 1..Len(events[p]) : IsProgress(events[p][i])
        /\ (pc[p] # "idle" /\ ~InFlight(p)) =>
              /\ events[p] # <<>>
              /\ ~IsProgress(Last(events[p]))
              /\ Last(events[p]) = final[p]

\* the places of an event in what a caller has received
Occurrences(p, event) ==
    { i \in 1..Len(events[p]) : events[p][i] = event }

\* the model steps of turn p that emitted tool calls
CallingSteps(p) ==
    { i \in ModelSteps(p, st[p].messages) : st[p].messages[i].calls # <<>> }

\* the tool results of turn p in the history of its run
ToolResultsOf(p) ==
    { i \in 1..Len(st[p].messages) :
        st[p].messages[i].role = "tool" /\ st[p].messages[i].turn = p }

\* C13 as stated: one searching event per model step that calls tools and
\* one processing event per tool result the loop observes.
C13_EventPerToolResult ==
    \A p \in Procs :
        InFlight(p) =>
            /\ Cardinality(Occurrences(p, SearchingEvent))
                  = Cardinality(CallingSteps(p))
            /\ Cardinality(Occurrences(p, ProcessingEvent))
                  = Cardinality(ToolResultsOf(p))

\* C13 as amended: while a turn runs, its events are searching and
\* processing events in alternation, one searching event per model step
\* that emitted tool calls and one processing event per ACT step, whatever
\* the number of tool results of that step.
C13_EventPerStep ==
    \A p \in Procs :
        InFlight(p) =>
            /\ \A i \in 1..Len(events[p]) :
                  events[p][i] = (IF i % 2 = 1 THEN SearchingEvent
                                  ELSE ProcessingEvent)
            /\ Cardinality(Occurrences(p, SearchingEvent))
                  = Cardinality(CallingSteps(p))
            /\ Cardinality(Occurrences(p, ProcessingEvent)) = cycles[p]
            /\ Len(events[p]) =
                  2 * cycles[p] + (IF pc[p] = "act" THEN 1 ELSE 0)

\* a step of two tool calls was answered and reported by one event
C13_Witness ==
    \E p \in Procs :
        /\ pc[p] = "reason"
        /\ Cardinality(ToolResultsOf(p)) = 2
        /\ events[p] = <<SearchingEvent, ProcessingEvent>>

\* the shapes of chunk metadata the statement of C14 names: with and without
\* a source, with and without a page
SourcePaths == { <<>>, <<"blast.pdf">>, <<"data", "blast.pdf">>, <<"data", "">> }
Pages == {0, 3}
MetadataShapes ==
    [source : {NoSource} \cup {Some(path) : path \in SourcePaths},
     page : {NoPage} \cup {Some(n) : n \in Pages}]

\* the header that carries the file name and the page of metadata meta
FilePageHeader(meta) ==
    <<"[", Basename(meta.source.value), ", p. ", PageStr(meta.page.value), "]">>

\* thread t has run generate on the documents it retrieved
Generated(t) == tpc[t] \in {"returned", "raised"} /\ tcontext[t] # <<>>

C15_ResultFromOwnTurn ==
    [][\A p \in Procs :
          LET sr == store[ctx[p]].structured_response
          IN (FinalStep(p) /\ sr.kind = "ResponseFormat" /\ sr.turn # p) =>
                /\ final'[p].content # sr.message
                /\ ~final'[p].is_task_complete]_vars

====
